---- MODULE Spec2Model ----
(***************************************************************************)
(* continuebee (rust/server): the user directory kept in a key-value store *)
(* (storage/user_client.rs) and the signed delete request that removes a   *)
(* user and its public-key index entry (handlers/delete_user_handler.rs).  *)
(*                                                                         *)
(* Strings are sequences of symbols, so format!() is concatenation (\o).   *)
(* Every request runs as its own task; a task's step is the code between   *)
(* two storage operations together with the storage operation it awaits.   *)
(***************************************************************************)
EXTENDS Naturals, Sequences, FiniteSets

\* ------------------------------------------------------------------ bounds

\* Number of uuids the generator hands out before the model stops creating.
MaxUuid == 2

\* The tasks that run requests concurrently.  A caller that starts the
\* requests of j1 and j2 together awaits both (a join) and holds each one's
\* result until the other has returned; t1 and t2 are requests of their own.
Joined == {"j1", "j2"}
Tasks == {"t1", "t2"} \cup Joined

\* ------------------------------------------------------------ input values

\* Strings that parse as a secp256k1 public key.
ValidKeyStrings == {<<"k1">>, <<"k2">>}
\* The pub_key strings users are created with: a key, and a string that does
\* not parse as one (put_user takes any &str).  k2 is held by no user.
PubKeyStrings == {<<"k1">>, <<"bad">>}
Hashes == {<<"h1">>, <<"h2">>}
Timestamps == {<<"ts">>}
\* uuid strings a caller may name: every one the generator can produce.
UuidStrings == {<<n>> : n \in 1..MaxUuid}

\* ------------------------------------------------------------- Option<T>

None == [some |-> FALSE]
Some(x) == [some |-> TRUE, val |-> x]

\* ---------------------------------------------------------- storage keys

USER_STRING == <<"user">>
KEYS_STRING == <<"keys">>

\* UserCLient::key: format!("{}:{}", USER_STRING, uuid)
UserKey(uuid) == USER_STRING \o <<":">> \o uuid

\* ------------------------------------------------------ storage backend
\* The backend is a map from keys to JSON documents (one file per key).

\* Client::get: the document under key, or absence.
ClientGet(s, key) == IF key \in DOMAIN s THEN Some(s[key]) ELSE None

\* Client::set, successful: creates or overwrites the document under key.
ClientSet(s, key, value) ==
    [k \in DOMAIN s \cup {key} |-> IF k = key THEN value ELSE s[k]]

\* Client::delete: the store afterwards, and whether a document was removed.
ClientDelete(s, key) ==
    [store |-> [k \in DOMAIN s \ {key} |-> s[k]], removed |-> key \in DOMAIN s]

\* ----------------------------------------------------------- documents

\* A document that decodes neither as a User nor as PubKeys.
CorruptDoc == [kind |-> "string", members |-> <<>>]

\* User::new(Some(uuid), pub_key, hash)
NewUser(uuid, pub_key, hash) == [uuid |-> uuid, pub_key |-> pub_key, hash |-> hash]

\* serde_json::to_value(user): a JSON object with one member per field.
UserToValue(user) ==
    [kind |-> "object",
     members |-> [f \in {"uuid", "pub_key", "hash"} |->
                    IF f = "uuid" THEN user.uuid
                    ELSE IF f = "pub_key" THEN user.pub_key ELSE user.hash]]

\* serde_json::from_value::<User>: needs an object holding the three fields.
UserFromValue(value) ==
    IF value.kind = "object" /\ {"uuid", "pub_key", "hash"} \subseteq DOMAIN value.members
    THEN Some(NewUser(value.members["uuid"], value.members["pub_key"],
                      value.members["hash"]))
    ELSE None

\* PubKeys::default(): the empty mapping (HashMap::new()).
EmptyMap == [k \in {} |-> <<>>]
PubKeysDefault == [pub_keys |-> EmptyMap]

\* PubKeys::add_user_uuid(user_uuid, pub_key): insert or overwrite the entry.
AddUserUuid(keys, user_uuid, pub_key) ==
    [pub_keys |-> [k \in DOMAIN keys.pub_keys \cup {pub_key} |->
                     IF k = pub_key THEN user_uuid ELSE keys.pub_keys[k]]]

\* PubKeys::get_user_uuid(pub_key)
GetUserUuidOf(keys, pub_key) ==
    IF pub_key \in DOMAIN keys.pub_keys THEN Some(keys.pub_keys[pub_key]) ELSE None

\* PubKeys::key(hash, pub_key): the index key of a public key's entry.
PubKeysKey(hash, pub_key) == pub_key

\* PubKeys with the entry under key removed (no change when it has none).
RemoveUserUuid(keys, key) ==
    [pub_keys |-> [k \in DOMAIN keys.pub_keys \ {key} |-> keys.pub_keys[k]]]

\* serde_json::to_value(keys)
PubKeysToValue(keys) == [kind |-> "object", members |-> [pub_keys |-> keys.pub_keys]]

\* serde_json::from_value::<PubKeys>
PubKeysFromValue(value) ==
    IF value.kind = "object" /\ "pub_keys" \in DOMAIN value.members
    THEN Some([pub_keys |-> value.members["pub_keys"]])
    ELSE None

\* ------------------------------------------------- keys and signatures
\* The sessionless / secp256k1 capability, kept opaque: a signature names the
\* key that made it and the message it was made over.

\* PublicKey::from_str, as used by User::pub_key()
PublicKeyFromStr(str) ==
    IF str \in ValidKeyStrings THEN Some([point |-> str]) ELSE None

\* PublicKey::to_string
PublicKeyToString(pub_key) == pub_key.point

\* The signature string a holder of pub_key's private key produces for message.
SignatureString(pub_key_str, message) == <<"sig">> \o pub_key_str \o message

\* A signature string that is not the encoding of any signature.
MalformedSignature == <<"garbage">>

\* Signature::from_str
SignatureFromStr(str) ==
    IF Len(str) >= 2 /\ Head(str) = "sig"
    THEN Some([signer |-> <<str[2]>>, message |-> SubSeq(str, 3, Len(str))])
    ELSE None

\* Sessionless::verify(message, &pub_key, &sig).is_ok()
Verify(message, pub_key, sig) ==
    sig.signer = PublicKeyToString(pub_key) /\ sig.message = message

\* ------------------------------------------------------------ responses

Accepted == 202
AuthError == [kind |-> "auth_error", code |-> 0, msg |-> ""]
NotFound == [kind |-> "not_found", code |-> 0, msg |-> ""]
Success(code) == [kind |-> "success", code |-> code, msg |-> ""]
ServerError(msg) == [kind |-> "server_error", code |-> 0, msg |-> msg]

\* anyhow::Result
Ok(x) == [ok |-> TRUE, val |-> x]
Err(e) == [ok |-> FALSE, err |-> e]

\* ------------------------------------------------------------ UserCLient
\* Each operation maps the store s (and what the backend answers: ok says
\* whether a write succeeds) to the store afterwards and the value returned.

\* The ensure step made with a bare create, which fails on a directory that
\* is already there.
create_storage_dir_FailIfExists(r, ok) ==
    IF r THEN [root |-> r, ret |-> Err("File exists")]
    ELSE IF ok THEN [root |-> TRUE, ret |-> Ok("unit")]
    ELSE [root |-> FALSE, ret |-> Err("create failed")]

\* The filesystem backend's ensure step before a write: create the root
\* directory if it is absent (r says whether it exists); no error when it
\* is there already, whoever created it.  ok: the backend's answer to a create.
create_storage_dir(r, ok) ==
    IF r THEN [root |-> r, ret |-> Ok("unit")]
    ELSE IF ok THEN [root |-> TRUE, ret |-> Ok("unit")]
    ELSE [root |-> FALSE, ret |-> Err("create failed")]

\* get_user reading the key without its ":" separator.
get_user_NoSeparator(s, uuid) ==
    LET got == ClientGet(s, USER_STRING \o uuid)
    IN  IF got.some THEN UserFromValue(got.val) ELSE None

\* get_user that removes nothing but answers a document that does not decode
\* with a default User instead of absence.
get_user_DefaultOnDecodeFailure(s, uuid) ==
    LET got == ClientGet(s, UserKey(uuid))
    IN  IF got.some
        THEN IF UserFromValue(got.val).some THEN UserFromValue(got.val)
             ELSE Some(NewUser(uuid, <<>>, <<>>))
        ELSE None

\* get_user: the decoded record under "user:"+uuid, absence when the key is
\* missing or the document does not decode.
get_user(s, uuid) ==
    LET got == ClientGet(s, UserKey(uuid))
    IN  IF got.some THEN UserFromValue(got.val) ELSE None

\* put_user storing every user under one fixed uuid instead of a generated one.
put_user_FixedUuid(s, uuid, pub_key, hash, ok) ==
    LET user == NewUser(<<1>>, pub_key, hash)
    IN  IF ok
        THEN [store |-> ClientSet(s, UserKey(user.uuid), UserToValue(user)),
              ret |-> Ok(user)]
        ELSE [store |-> s, ret |-> Err("set failed")]

\* put_user passing its arguments to User::new in the wrong order.
put_user_SwapFields(s, uuid, pub_key, hash, ok) ==
    LET user == NewUser(uuid, hash, pub_key)
    IN  IF ok
        THEN [store |-> ClientSet(s, UserKey(user.uuid), UserToValue(user)),
              ret |-> Ok(user)]
        ELSE [store |-> s, ret |-> Err("set failed")]

\* put_user that also registers the new user's key in the index.
put_user_RegistersKey(s, uuid, pub_key, hash, ok) ==
    LET user == NewUser(uuid, pub_key, hash)
        keys == IF KEYS_STRING \in DOMAIN s /\ PubKeysFromValue(s[KEYS_STRING]).some
                THEN PubKeysFromValue(s[KEYS_STRING]).val ELSE PubKeysDefault
    IN  IF ok
        THEN [store |-> ClientSet(ClientSet(s, UserKey(user.uuid), UserToValue(user)),
                                  KEYS_STRING,
                                  PubKeysToValue(AddUserUuid(keys, uuid, pub_key))),
              ret |-> Ok(user)]
        ELSE [store |-> s, ret |-> Err("set failed")]

\* put_user: uuid is the value Sessionless::generate_uuid() returned.
put_user(s, uuid, pub_key, hash, ok) ==
    LET user == NewUser(uuid, pub_key, hash)
    IN  IF ok
        THEN [store |-> ClientSet(s, UserKey(user.uuid), UserToValue(user)),
              ret |-> Ok(user)]
        ELSE [store |-> s, ret |-> Err("set failed")]

\* update_hash as the source has it, in a comment under "TODO": fetch the
\* user, set its hash, put_user it.  put_user is the client's only write of
\* a user record and stores under the uuid it generates (uuid here).
update_hash(s, uuid, existing_user, new_hash, ok) ==
    LET got == get_user(s, existing_user.uuid)
    IN  IF got.some
        THEN put_user(s, uuid, got.val.pub_key, new_hash, ok)
        ELSE [store |-> s, ret |-> Err("Failed to retrieve existing user")]

\* delete_user reporting a removal whether or not there was a record.
delete_user_AlwaysTrue(s, uuid) ==
    [store |-> ClientDelete(s, UserKey(uuid)).store, ret |-> TRUE]

\* delete_user that clears the keys document along with the record.
delete_user_DropsIndex(s, uuid) ==
    LET d == ClientDelete(s, UserKey(uuid))
    IN  [store |-> ClientDelete(d.store, KEYS_STRING).store, ret |-> d.removed]

\* delete_user that reports whether the record is there but leaves it.
delete_user_KeepsRecord(s, uuid) ==
    [store |-> s, ret |-> ClientDelete(s, UserKey(uuid)).removed]

\* delete_user
delete_user(s, uuid) ==
    LET d == ClientDelete(s, UserKey(uuid))
    IN  [store |-> d.store, ret |-> d.removed]

\* get_keys treating a missing keys document as a failure.
get_keys_ErrOnMissing(s) ==
    LET got == ClientGet(s, KEYS_STRING)
    IN  IF got.some
        THEN LET dec == PubKeysFromValue(got.val)
             IN  IF dec.some THEN Ok(dec.val) ELSE Ok(PubKeysDefault)
        ELSE Err("no keys document")

\* get_keys passing on the decode error of a keys document.
get_keys_ErrOnUndecodable(s) ==
    LET got == ClientGet(s, KEYS_STRING)
    IN  IF got.some
        THEN LET dec == PubKeysFromValue(got.val)
             IN  IF dec.some THEN Ok(dec.val) ELSE Err("invalid type")
        ELSE Ok(PubKeysDefault)

\* get_keys: never an error; the empty mapping when the document is missing
\* or does not decode.
get_keys(s) ==
    LET got == ClientGet(s, KEYS_STRING)
    IN  IF got.some
        THEN LET dec == PubKeysFromValue(got.val)
             IN  IF dec.some THEN Ok(dec.val) ELSE Ok(PubKeysDefault)
        ELSE Ok(PubKeysDefault)

\* save_pub_keys
save_pub_keys(s, keys, ok) ==
    IF ok
    THEN [store |-> ClientSet(s, KEYS_STRING, PubKeysToValue(keys)), ret |-> Ok("unit")]
    ELSE [store |-> s, ret |-> Err("set failed")]

\* get_user_uuid
get_user_uuid(s, pub_key) ==
    LET r == get_keys(s)
    IN  IF r.ok THEN GetUserUuidOf(r.val, PublicKeyToString(pub_key)) ELSE None

\* update_keys that keeps the entry a public key already has.
update_keys_KeepFirst(s, read, pub_key, user_uuid, ok) ==
    IF read.ok
    THEN save_pub_keys(s,
            IF PublicKeyToString(pub_key) \in DOMAIN read.val.pub_keys THEN read.val
            ELSE AddUserUuid(read.val, user_uuid, PublicKeyToString(pub_key)), ok)
    ELSE [store |-> s, ret |-> read]

\* update_keys reading the index again at its save, so that it adds to what
\* is stored then.
update_keys_ReadAtSave(s, read, pub_key, user_uuid, ok) ==
    save_pub_keys(s, AddUserUuid(get_keys(s).val, user_uuid, PublicKeyToString(pub_key)), ok)

\* update_keys that saves the mapping as it read it, its own entry left out.
update_keys_SavesWhatItRead(s, read, pub_key, user_uuid, ok) ==
    IF read.ok
    THEN save_pub_keys(s, read.val, ok)
    ELSE [store |-> s, ret |-> read]

\* update_keys after its get_keys returned read: add the entry, save the map.
update_keys(s, read, pub_key, user_uuid, ok) ==
    IF read.ok
    THEN save_pub_keys(s, AddUserUuid(read.val, user_uuid, PublicKeyToString(pub_key)), ok)
    ELSE [store |-> s, ret |-> read]

\* remove_key after its get_keys returned read: drop the entry, save the map.
remove_key(s, read, key, ok) ==
    IF read.ok
    THEN save_pub_keys(s, RemoveUserUuid(read.val, key), ok)
    ELSE [store |-> s, ret |-> read]

\* --------------------------------------------------- delete_user_handler

\* DeleteUserRequest
DeleteUserRequest(timestamp, user_uuid, hash, signature) ==
    [timestamp |-> timestamp, user_uuid |-> user_uuid, hash |-> hash,
     signature |-> signature]

\* format!("{}{}{}", body.timestamp, body.user_uuid, body.hash)
Message(body) == body.timestamp \o body.user_uuid \o body.hash

\* Authenticate without the verify: any parsed signature is let through.
Authenticate_SkipVerify(s, body) ==
    LET sig == SignatureFromStr(body.signature)
        found_user == get_user(s, body.user_uuid)
        pub_key == PublicKeyFromStr(found_user.val.pub_key)
    IN  IF ~sig.some THEN [resp |-> Some(AuthError), found_user |-> None]
        ELSE IF ~found_user.some THEN [resp |-> Some(NotFound), found_user |-> None]
        ELSE IF ~pub_key.some THEN [resp |-> Some(AuthError), found_user |-> found_user]
        ELSE [resp |-> None, found_user |-> found_user]

\* Authenticate hiding the existence of users: a missing target is unauthorized.
Authenticate_HideExistence(s, body) ==
    LET sig == SignatureFromStr(body.signature)
        found_user == get_user(s, body.user_uuid)
        pub_key == PublicKeyFromStr(found_user.val.pub_key)
    IN  IF ~sig.some THEN [resp |-> Some(AuthError), found_user |-> None]
        ELSE IF ~found_user.some THEN [resp |-> Some(AuthError), found_user |-> None]
        ELSE IF ~pub_key.some THEN [resp |-> Some(AuthError), found_user |-> found_user]
        ELSE IF ~Verify(Message(body), pub_key.val, sig.val)
             THEN [resp |-> Some(AuthError), found_user |-> found_user]
        ELSE [resp |-> None, found_user |-> found_user]

\* Authenticate reporting a signature that does not parse as a bad request.
Authenticate_ReportParseError(s, body) ==
    LET sig == SignatureFromStr(body.signature)
        found_user == get_user(s, body.user_uuid)
        pub_key == PublicKeyFromStr(found_user.val.pub_key)
    IN  IF ~sig.some
        THEN [resp |-> Some(ServerError("Malformed signature")), found_user |-> None]
        ELSE IF ~found_user.some THEN [resp |-> Some(NotFound), found_user |-> None]
        ELSE IF ~pub_key.some THEN [resp |-> Some(AuthError), found_user |-> found_user]
        ELSE IF ~Verify(Message(body), pub_key.val, sig.val)
             THEN [resp |-> Some(AuthError), found_user |-> found_user]
        ELSE [resp |-> None, found_user |-> found_user]

\* The handler up to its first mutation: parse the signature, fetch the
\* target user, parse its key, verify.  resp is the response it returns
\* there, or absence when it goes on to delete.
Authenticate(s, body) ==
    LET sig == SignatureFromStr(body.signature)
        found_user == get_user(s, body.user_uuid)
        pub_key == PublicKeyFromStr(found_user.val.pub_key)
    IN  IF ~sig.some THEN [resp |-> Some(AuthError), found_user |-> None]
        ELSE IF ~found_user.some THEN [resp |-> Some(NotFound), found_user |-> None]
        ELSE IF ~pub_key.some THEN [resp |-> Some(AuthError), found_user |-> found_user]
        ELSE IF ~Verify(Message(body), pub_key.val, sig.val)
             THEN [resp |-> Some(AuthError), found_user |-> found_user]
        ELSE [resp |-> None, found_user |-> found_user]

\* The index key taken from the request's hash alone.
HandlerKey_HashOnly(body, found_user) == body.hash

\* let key = PubKeys::key(&body.hash, &pub_key.to_string())
HandlerKey(body, found_user) ==
    PubKeysKey(body.hash, PublicKeyToString(PublicKeyFromStr(found_user.pub_key).val))

\* The signature strings a caller sends with a request: a malformed one, and
\* signatures by either key over the message of the request or of another.
SignaturesFor(timestamp, user_uuid) ==
    {MalformedSignature} \cup
    {SignatureString(k, timestamp \o user_uuid \o h) : k \in ValidKeyStrings, h \in Hashes}

\* ----------------------------------------------------------------- state

VARIABLES
    store,      \* the storage backend: key -> document
    nextUuid,   \* how many uuids Sessionless::generate_uuid() has handed out
    task,       \* per task: the request it is in the middle of, and its locals
    last,       \* the step taken last: the operation, its arguments, what it returned
    root        \* whether the backend's root directory exists

vars == <<store, nextUuid, task, last, root>>

Idle == [op |-> "idle", pc |-> "idle", arg |-> <<>>, loc |-> <<>>]

\* What last holds after a step that returns nothing to a caller yet.
Pending(t, op) ==
    [task |-> t, op |-> op, done |-> FALSE, arg |-> <<>>, loc |-> <<>>, ret |-> <<>>]

\* What last holds after the step in which an operation returns: its
\* arguments, its local variables at the return, and the value returned.
Returned(t, op, arg, loc, ret) ==
    [task |-> t, op |-> op, done |-> TRUE, arg |-> arg, loc |-> loc, ret |-> ret]

Init ==
    /\ store = [k \in {} |-> CorruptDoc]
    /\ nextUuid = 1
    /\ task = [t \in Tasks |-> Idle]
    /\ last = Pending("t1", "init")
    /\ root = FALSE

\* The task's request is answered: it is free for the next one, unless its
\* caller awaits a second request beside it and keeps the result till then.
Finish(t, op, arg, loc, ret) ==
    /\ task' = [task EXCEPT ![t] =
                  IF t \in Joined
                  THEN [op |-> op, pc |-> "returned", arg |-> arg,
                        loc |-> [ret |-> ret, loc |-> loc]]
                  ELSE Idle]
    /\ last' = Returned(t, op, arg, loc, ret)

\* The task suspends on its next storage operation.
Goto(t, op, pc, arg, loc) ==
    /\ task' = [task EXCEPT ![t] = [op |-> op, pc |-> pc, arg |-> arg, loc |-> loc]]
    /\ last' = Pending(t, op)

\* Sessionless::generate_uuid().to_string(): a value never returned before.
GenerateUuid == <<nextUuid>>

\* ------------------------------------------------- UserCLient operations

PutUser(t) ==
    /\ task[t] = Idle
    /\ nextUuid <= MaxUuid
    /\ \E pub_key \in PubKeyStrings, hash \in Hashes, ok \in BOOLEAN :
         LET r == put_user(store, GenerateUuid, pub_key, hash, ok)
         IN  /\ store' = r.store
             /\ root' = (root \/ ok)
             /\ Finish(t, "put_user", [pub_key |-> pub_key, hash |-> hash], <<>>, r.ret)
    /\ nextUuid' = nextUuid + 1

\* put_user on the filesystem backend, up to the await in client.set that
\* looks whether the root directory is there.
PutUserStat(t) ==
    /\ task[t] = Idle
    /\ nextUuid <= MaxUuid
    /\ \E pub_key \in PubKeyStrings, hash \in Hashes :
         Goto(t, "put_user", IF root THEN "write" ELSE "create_dir",
              [pub_key |-> pub_key, hash |-> hash],
              [uuid |-> GenerateUuid, seen |-> root])
    /\ nextUuid' = nextUuid + 1
    /\ UNCHANGED <<store, root>>

\* client.set, next await: the root directory, seen absent, is ensured.
PutUserCreateDir(t) ==
    /\ task[t].op = "put_user" /\ task[t].pc = "create_dir"
    /\ \E ok \in BOOLEAN :
         LET r == create_storage_dir(root, ok)
         IN  /\ root' = r.root
             /\ IF r.ret.ok
                THEN Goto(t, "put_user", "write", task[t].arg, task[t].loc)
                ELSE Finish(t, "put_user", task[t].arg, task[t].loc, r.ret)
    /\ UNCHANGED <<store, nextUuid>>

\* client.set, last await: the document is written; put_user returns.
PutUserWrite(t) ==
    /\ task[t].op = "put_user" /\ task[t].pc = "write"
    /\ \E ok \in BOOLEAN :
         LET a == task[t].arg
             r == put_user(store, task[t].loc.uuid, a.pub_key, a.hash, ok /\ root)
         IN  /\ store' = r.store
             /\ Finish(t, "put_user", a, task[t].loc, r.ret)
    /\ UNCHANGED <<nextUuid, root>>

GetUser(t) ==
    /\ task[t] = Idle
    /\ \E uuid \in UuidStrings :
         Finish(t, "get_user", [uuid |-> uuid], <<>>, get_user(store, uuid))
    /\ UNCHANGED <<store, nextUuid, root>>

DeleteUser(t) ==
    /\ task[t] = Idle
    /\ \E uuid \in UuidStrings :
         LET r == delete_user(store, uuid)
         IN  /\ store' = r.store
             /\ Finish(t, "delete_user", [uuid |-> uuid], <<>>, r.ret)
    /\ UNCHANGED <<nextUuid, root>>

\* update_hash (not compiled in: see update_hash above)
UpdateHash(t) ==
    /\ task[t] = Idle
    /\ \E uuid \in UuidStrings, new_hash \in Hashes, ok \in BOOLEAN :
         LET found == get_user(store, uuid).some
             r == update_hash(store, GenerateUuid, [uuid |-> uuid], new_hash, ok)
         IN  /\ found => nextUuid <= MaxUuid
             /\ store' = r.store
             /\ nextUuid' = IF found THEN nextUuid + 1 ELSE nextUuid
             /\ root' = (root \/ (found /\ ok))
             /\ Finish(t, "update_hash", [uuid |-> uuid, new_hash |-> new_hash],
                       <<>>, r.ret)

GetUserUuid(t) ==
    /\ task[t] = Idle
    /\ \E k \in ValidKeyStrings :
         Finish(t, "get_user_uuid", [pub_key |-> k], <<>>,
                get_user_uuid(store, PublicKeyFromStr(k).val))
    /\ UNCHANGED <<store, nextUuid, root>>

\* update_keys, first await: self.get_keys()
UpdateKeysGet(t) ==
    /\ task[t] = Idle
    /\ \E k \in ValidKeyStrings, uuid \in UuidStrings :
         Goto(t, "update_keys", "save", [pub_key |-> k, user_uuid |-> uuid],
              [read |-> get_keys(store)])
    /\ UNCHANGED <<store, nextUuid, root>>

\* update_keys, second await: self.save_pub_keys(...)
UpdateKeysSave(t) ==
    /\ task[t].op = "update_keys" /\ task[t].pc = "save"
    /\ \E ok \in BOOLEAN :
         LET a == task[t].arg
             r == update_keys(store, task[t].loc.read, PublicKeyFromStr(a.pub_key).val,
                              a.user_uuid, ok)
         IN  /\ store' = r.store
             /\ root' = (root \/ ok)
             /\ Finish(t, "update_keys", a, task[t].loc, r.ret)
    /\ UNCHANGED nextUuid

\* --------------------------------------------- delete_user_handler steps

\* From the request to the first mutation: everything up to the verify.
HandlerAuthenticate(t) ==
    /\ task[t] = Idle
    /\ \E timestamp \in Timestamps, user_uuid \in UuidStrings, hash \in Hashes :
       \E signature \in SignaturesFor(timestamp, user_uuid) :
         LET body == DeleteUserRequest(timestamp, user_uuid, hash, signature)
             a == Authenticate(store, body)
         IN  IF a.resp.some
             THEN Finish(t, "delete_user_handler", body, <<>>, a.resp.val)
             ELSE Goto(t, "delete_user_handler", "delete_user", body,
                       [found_user |-> a.found_user.val])
    /\ UNCHANGED <<store, nextUuid, root>>

\* The handler going on to remove the key whatever delete_user returned.
HandlerDeleteUser_IgnoresResult(t) ==
    /\ task[t].op = "delete_user_handler" /\ task[t].pc = "delete_user"
    /\ store' = delete_user(store, task[t].loc.found_user.uuid).store
    /\ Goto(t, "delete_user_handler", "remove_key_get", task[t].arg, task[t].loc)
    /\ UNCHANGED <<nextUuid, root>>

\* data.user_client.clone().delete_user(&found_user.uuid)
HandlerDeleteUser(t) ==
    /\ task[t].op = "delete_user_handler" /\ task[t].pc = "delete_user"
    /\ LET r == delete_user(store, task[t].loc.found_user.uuid)
       IN  /\ store' = r.store
           /\ IF r.ret
              THEN Goto(t, "delete_user_handler", "remove_key_get", task[t].arg, task[t].loc)
              ELSE Finish(t, "delete_user_handler", task[t].arg, task[t].loc,
                          ServerError("Failed to delete user"))
    /\ UNCHANGED <<nextUuid, root>>

\* remove_key, first await: the index is read
HandlerRemoveKeyGet(t) ==
    /\ task[t].op = "delete_user_handler" /\ task[t].pc = "remove_key_get"
    /\ Goto(t, "delete_user_handler", "remove_key_save", task[t].arg,
            [found_user |-> task[t].loc.found_user, read |-> get_keys(store)])
    /\ UNCHANGED <<store, nextUuid, root>>

\* remove_key, second await: the index is written back; then the response
HandlerRemoveKeySave(t) ==
    /\ task[t].op = "delete_user_handler" /\ task[t].pc = "remove_key_save"
    /\ \E ok \in BOOLEAN :
         LET key == HandlerKey(task[t].arg, task[t].loc.found_user)
             r == remove_key(store, task[t].loc.read, key, ok)
         IN  /\ store' = r.store
             /\ root' = (root \/ ok)
             /\ Finish(t, "delete_user_handler", task[t].arg, task[t].loc,
                       IF r.ret.ok THEN Success(Accepted)
                       ELSE ServerError("Failed to delete key"))
    /\ UNCHANGED nextUuid

\* ------------------------------------------------------------ environment

\* A stored document is damaged outside the service: it no longer decodes.
Corrupt ==
    /\ \E key \in DOMAIN store :
         /\ store[key] # CorruptDoc
         /\ store' = ClientSet(store, key, CorruptDoc)
    /\ last' = Pending("t1", "corrupt")
    /\ UNCHANGED <<nextUuid, task, root>>

\* ---------------------------------------------------------- specifications

\* The directory service used by one caller at a time.
Next ==
    \/ PutUser("t1")
    \/ GetUser("t1")
    \/ DeleteUser("t1")
    \/ GetUserUuid("t1")
    \/ UpdateKeysGet("t1")
    \/ UpdateKeysSave("t1")
    \/ Corrupt

Spec == Init /\ [][Next]_vars

\* Delete requests (task t1) beside the directory operations of another
\* task (t2) that create users, register their keys and delete them.
NextHandler ==
    \/ PutUser("t2")
    \/ DeleteUser("t2")
    \/ UpdateKeysGet("t1")
    \/ UpdateKeysSave("t1")
    \/ HandlerAuthenticate("t1")
    \/ HandlerDeleteUser("t1")
    \/ HandlerRemoveKeyGet("t1")
    \/ HandlerRemoveKeySave("t1")

SpecHandler == Init /\ [][NextHandler]_vars

\* The directory service with the update of a user's hash as the source
\* sketches it.
NextUpdateHash ==
    \/ PutUser("t1")
    \/ GetUser("t1")
    \/ DeleteUser("t1")
    \/ UpdateHash("t1")

SpecUpdateHash == Init /\ [][NextUpdateHash]_vars

\* The caller of two joined requests has both results: the tasks are free.
Join ==
    /\ \A t \in Joined : task[t].pc = "returned"
    /\ task' = [t \in Tasks |-> IF t \in Joined THEN Idle ELSE task[t]]
    /\ last' = Pending("j1", "join")
    /\ UNCHANGED <<store, nextUuid, root>>

\* First writes started together on a backend whose root directory does not
\* exist yet: two put_user calls, the awaits inside client.set interleaved.
NextFirstWrite ==
    \/ PutUserStat("j1")
    \/ PutUserCreateDir("j1")
    \/ PutUserWrite("j1")
    \/ PutUserStat("j2")
    \/ PutUserCreateDir("j2")
    \/ PutUserWrite("j2")
    \/ Join

SpecFirstWrite == Init /\ [][NextFirstWrite]_vars

\* Key registrations started together: two update_keys calls in flight at
\* once, their awaits interleaved in every order.
NextRegister ==
    \/ UpdateKeysGet("j1")
    \/ UpdateKeysSave("j1")
    \/ UpdateKeysGet("j2")
    \/ UpdateKeysSave("j2")
    \/ Join

SpecRegister == Init /\ [][NextRegister]_vars

\* Delete requests started together, beside the creation of users: two
\* delete_user_handler calls in flight at once, their awaits interleaved.
NextDeletes ==
    \/ PutUser("t1")
    \/ HandlerAuthenticate("j1")
    \/ HandlerDeleteUser("j1")
    \/ HandlerRemoveKeyGet("j1")
    \/ HandlerRemoveKeySave("j1")
    \/ HandlerAuthenticate("j2")
    \/ HandlerDeleteUser("j2")
    \/ HandlerRemoveKeyGet("j2")
    \/ HandlerRemoveKeySave("j2")
    \/ Join

SpecDeletes == Init /\ [][NextDeletes]_vars

\* ------------------------------------------------------------ properties

\* The subscript of the properties of single steps: the variables, led by
\* the operation of the step taken last and whether it returned.
stepvars == <<last.op, last.done, vars>>

\* The request task t is in passed the handler's verify: its signature
\* parses and verifies, over the request's message, against the public key
\* of the user record the handler fetched.
Verified(t) ==
    /\ task[t].op = "delete_user_handler"
    /\ LET body == task[t].arg
           sig == SignatureFromStr(body.signature)
           pub_key == PublicKeyFromStr(task[t].loc.found_user.pub_key)
       IN  sig.some /\ pub_key.some /\ Verify(Message(body), pub_key.val, sig.val)

\* The step is the one in which a delete request arrives: the handler runs
\* up to its verify and either answers or goes on to delete.
HandlerArrives == last'.op = "delete_user_handler" /\ task[last'.task] = Idle

\* The request that arrives in a HandlerArrives step.
ArrivingBody == IF last'.done THEN last'.arg ELSE task'[last'.task].arg

\* C1: a step of the delete handler changes the storage only when the
\* request's signature has been verified against the public key of the
\* fetched user, and a request answered auth_error or not_found leaves the
\* storage (every user record and the keys document) as it was.
C1_MutationOnlyAfterVerification ==
    [][last'.op = "delete_user_handler" =>
         /\ (store' # store => Verified(last'.task))
         /\ (last'.done /\ last'.ret.kind \in {"auth_error", "not_found"}
               => store' = store)]_stepvars

\* C1 witness: a request signed by a key that is not the user's was answered
\* auth_error while the user's record and the keys document are stored.
C1_Witness ==
    /\ last.op = "delete_user_handler" /\ last.done /\ last.ret = AuthError
    /\ SignatureFromStr(last.arg.signature).some
    /\ UserKey(last.arg.user_uuid) \in DOMAIN store
    /\ KEYS_STRING \in DOMAIN store

\* C2 as stated: a delete request whose target has no stored record is
\* answered not_found for every signature string, also one that does not
\* parse.
C2_NotFoundForEverySignature ==
    [][(HandlerArrives /\ UserKey(ArrivingBody.user_uuid) \notin DOMAIN store)
         => last'.done /\ last'.ret = NotFound]_stepvars

\* C2 amended: a delete request whose target has no stored record is answered
\* not_found for every signature string that parses, whether or not it would
\* verify, and auth_error for a signature string that does not parse.
C2_NotFoundForEveryParsedSignature ==
    [][(HandlerArrives /\ UserKey(ArrivingBody.user_uuid) \notin DOMAIN store)
         => /\ last'.done
            /\ last'.ret = IF SignatureFromStr(ArrivingBody.signature).some
                           THEN NotFound ELSE AuthError]_stepvars

\* C2 witness: not_found was answered to a well-formed signature for a uuid
\* with no record.
C2_Witness ==
    /\ last.op = "delete_user_handler" /\ last.done /\ last.ret = NotFound
    /\ SignatureFromStr(last.arg.signature).some
    /\ UserKey(last.arg.user_uuid) \notin DOMAIN store

C4_ParseAndVerifyFailuresAlike ==
    [][HandlerArrives =>
         LET body == ArrivingBody
             found_user == get_user(store, body.user_uuid)
             sig == SignatureFromStr(body.signature)
             pub_key == PublicKeyFromStr(found_user.val.pub_key)
         IN  (/\ found_user.some
              /\ \/ ~sig.some
                 \/ ~pub_key.some
                 \/ ~Verify(Message(body), pub_key.val, sig.val))
             => last'.done /\ last'.ret = AuthError /\ store' = store]_stepvars

\* C4 witness: auth_error was answered to a signature string that does not
\* parse, for a user whose record is stored and decodes.
C4_Witness ==
    /\ last.op = "delete_user_handler" /\ last.done /\ last.ret = AuthError
    /\ ~SignatureFromStr(last.arg.signature).some
    /\ get_user(store, last.arg.user_uuid).some

\* The uuids Sessionless::generate_uuid() has handed out so far.
Issued == {<<n>> : n \in 1..(nextUuid - 1)}

\* C5: delete_user(uuid) returns true exactly when a record was stored under
\* "user:"+uuid, the record is absent afterwards, and a delete_user(uuid)
\* that directly follows a delete_user(uuid) returns false.
C5_DeleteUserIdempotent ==
    [][last'.op = "delete_user" =>
         LET key == UserKey(last'.arg.uuid)
         IN  /\ last'.ret = (key \in DOMAIN store)
             /\ key \notin DOMAIN store'
             /\ (last.op = "delete_user" /\ last.arg = last'.arg => last'.ret = FALSE)]_stepvars

\* C5 witness: delete_user returned true for a uuid that was handed out, and
\* the record is gone.
C5_Witness ==
    /\ last.op = "delete_user" /\ last.ret = TRUE
    /\ last.arg.uuid \in Issued
    /\ UserKey(last.arg.uuid) \notin DOMAIN store

\* C6: when the document under "user:"+uuid is the encoding of a User with
\* that uuid, get_user(uuid) returns that User, equal in all three fields;
\* in particular get_user of the uuid put_user just returned gives the User
\* put_user returned.
C6_GetUserRoundTrip ==
    /\ last.op = "get_user" =>
         \A pub_key \in PubKeyStrings, hash \in Hashes :
           LET user == NewUser(last.arg.uuid, pub_key, hash)
               key == UserKey(last.arg.uuid)
           IN  (key \in DOMAIN store /\ store[key] = UserToValue(user))
                 => last.ret = Some(user)
    /\ (last.op = "put_user" /\ last.ret.ok) =>
         get_user(store, last.ret.val.uuid) = Some(last.ret.val)

\* C6 witness: get_user returned a User for a stored record.
C6_Witness ==
    /\ last.op = "get_user" /\ last.ret.some
    /\ UserKey(last.arg.uuid) \in DOMAIN store
    /\ last.ret.val.uuid = last.arg.uuid

\* C7: the uuid a successful put_user returns was never handed out before
\* (so the uuids returned are pairwise distinct, deleted users' included),
\* no record was stored under it, and every stored user record lies under a
\* uuid that was handed out.
C7_UuidsNeverReused ==
    [][last'.op = "put_user" =>
         /\ last'.ret.ok =>
              LET uuid == last'.ret.val.uuid
              IN  /\ uuid \notin Issued
                  /\ uuid \in Issued'
                  /\ UserKey(uuid) \notin DOMAIN store
         /\ \A key \in DOMAIN store' :
              key = KEYS_STRING \/ \E uuid \in Issued' : key = UserKey(uuid)]_stepvars

\* C7 witness: put_user returned a new uuid after the record of a uuid handed
\* out earlier was removed.
C7_Witness ==
    /\ last.op = "put_user" /\ last.ret.ok
    /\ \E uuid \in Issued :
         uuid # last.ret.val.uuid /\ UserKey(uuid) \notin DOMAIN store

\* C8: a put_user that succeeds returns a User with a non-empty generated
\* uuid and the pub_key and hash it was given, and exactly the encoding of
\* that User is stored under "user:"+uuid; a put_user whose write fails
\* returns an error, no User, and nothing is stored under the generated uuid.
C8_PutUserStoresWhatItReturns ==
    last.op = "put_user" =>
      IF last.ret.ok
      THEN LET user == last.ret.val
           IN  /\ user.uuid # <<>>
               /\ user.uuid \in Issued
               /\ user.pub_key = last.arg.pub_key
               /\ user.hash = last.arg.hash
               /\ UserKey(user.uuid) \in DOMAIN store
               /\ store[UserKey(user.uuid)] = UserToValue(user)
      ELSE /\ last.ret = Err("set failed")
           /\ UserKey(<<nextUuid - 1>>) \notin DOMAIN store

\* C8 witness: put_user returned a User.
C8_Witness ==
    /\ last.op = "put_user" /\ last.ret.ok
    /\ last.ret.val.hash = <<"h2">>
    /\ UserKey(last.ret.val.uuid) \in DOMAIN store

\* C9: put_user writes no key but "user:"+<the new uuid>: the keys document
\* and every other user's record are as they were.
C9_PutUserFrame ==
    [][last'.op = "put_user" =>
         \A key \in (DOMAIN store \cup DOMAIN store') \ {UserKey(<<nextUuid>>)} :
           key \in DOMAIN store /\ key \in DOMAIN store' /\ store'[key] = store[key]]_stepvars

\* C9 witness: put_user succeeded while the keys document and another
\* user's record were stored.
C9_Witness ==
    /\ last.op = "put_user" /\ last.ret.ok
    /\ KEYS_STRING \in DOMAIN store
    /\ \E uuid \in Issued :
         uuid # last.ret.val.uuid /\ UserKey(uuid) \in DOMAIN store

\* C10: after an update_keys(pub_key, user_uuid) that succeeds,
\* get_user_uuid(pub_key) is user_uuid, whatever uuid the key was registered
\* with before: the last registration wins.
C10_LastRegistrationWins ==
    (last.op = "update_keys" /\ last.done /\ last.ret.ok) =>
      get_user_uuid(store, PublicKeyFromStr(last.arg.pub_key).val)
        = Some(last.arg.user_uuid)

\* C10 witness: update_keys succeeded for a public key that its read of the
\* index found registered with another uuid.
C10_Witness ==
    /\ last.op = "update_keys" /\ last.done /\ last.ret.ok
    /\ GetUserUuidOf(last.loc.read.val, last.arg.pub_key).some
    /\ GetUserUuidOf(last.loc.read.val, last.arg.pub_key) # Some(last.arg.user_uuid)
    /\ get_user_uuid(store, PublicKeyFromStr(last.arg.pub_key).val)
         = Some(last.arg.user_uuid)

C12_UndecodableUserReadsAbsent ==
    [][last'.op = "get_user" =>
         LET key == UserKey(last'.arg.uuid)
         IN  /\ (key \in DOMAIN store /\ ~UserFromValue(store[key]).some) =>
                  /\ last'.ret = None
                  /\ last'.ret = get_user(ClientDelete(store, key).store, last'.arg.uuid)
                  /\ key \in DOMAIN store' /\ store'[key] = store[key]
             /\ key \notin DOMAIN store => last'.ret = None
             /\ store' = store]_stepvars

\* C12 witness: get_user returned absence for a uuid whose stored document
\* does not decode.
C12_Witness ==
    /\ last.op = "get_user" /\ last.ret = None
    /\ UserKey(last.arg.uuid) \in DOMAIN store
    /\ store[UserKey(last.arg.uuid)] = CorruptDoc

\* C13: update_keys writes the whole keys document from the mapping its own
\* get_keys read, with nothing held between the read and the save: a save
\* that succeeds stores that mapping plus its own entry whatever is stored
\* by then, so an entry another update_keys saved in between is gone.
C13_UpdateKeysOverwritesFromItsRead ==
    [][(last'.op = "update_keys" /\ last'.done /\ last'.ret.ok) =>
         LET t == last'.task
             read == task[t].loc.read.val
             pk == last'.arg.pub_key
         IN  /\ store'[KEYS_STRING]
                  = PubKeysToValue(AddUserUuid(read, last'.arg.user_uuid, pk))
             /\ \A k \in ValidKeyStrings \ {pk} :
                  get_user_uuid(store', PublicKeyFromStr(k).val)
                    = GetUserUuidOf(read, k)]_stepvars

\* C13 witness: two update_keys calls for distinct public keys ran together,
\* both returned Ok, and the index holds the entry of one of them only.
C13_Witness ==
    /\ \A t \in Joined :
         /\ task[t].op = "update_keys" /\ task[t].pc = "returned"
         /\ task[t].loc.ret.ok
    /\ task["j1"].arg.pub_key # task["j2"].arg.pub_key
    /\ \E t \in Joined, other \in Joined :
         /\ get_user_uuid(store, PublicKeyFromStr(task[t].arg.pub_key).val)
              = Some(task[t].arg.user_uuid)
         /\ get_user_uuid(store, PublicKeyFromStr(task[other].arg.pub_key).val) = None

C15_EnsureRootBeforeWrite ==
    [][(last'.op = "put_user" /\ task[last'.task].op = "put_user") =>
         LET t == last'.task
         IN  /\ (task[t].pc = "create_dir" /\ root) =>
                  /\ ~last'.done /\ task'[t].pc = "write"
                  /\ root' /\ store' = store
             /\ (task[t].pc = "create_dir" /\ ~last'.done) => root'
             /\ task[t].pc = "write" =>
                  /\ root
                  /\ last'.done
                  /\ last'.ret.ok =>
                       UserKey(task[t].loc.uuid) \in DOMAIN store']_stepvars

\* C15 witness: two put_user calls both saw the root directory absent, and
\* both returned Ok with their records stored.
C15_Witness ==
    \A t \in Joined :
      /\ task[t].op = "put_user" /\ task[t].pc = "returned"
      /\ ~task[t].loc.loc.seen
      /\ task[t].loc.ret.ok
      /\ UserKey(task[t].loc.ret.val.uuid) \in DOMAIN store

\* C16: delete_user(uuid) touches no key but "user:"+uuid: the keys document
\* and every other user's record are as they were, so get_user_uuid answers
\* every public key as before, also with the uuid just deleted.
C16_DeleteUserFrame ==
    [][last'.op = "delete_user" =>
         /\ \A key \in (DOMAIN store \cup DOMAIN store') \ {UserKey(last'.arg.uuid)} :
              key \in DOMAIN store /\ key \in DOMAIN store' /\ store'[key] = store[key]
         /\ \A k \in ValidKeyStrings :
              get_user_uuid(store', PublicKeyFromStr(k).val)
                = get_user_uuid(store, PublicKeyFromStr(k).val)]_stepvars

\* C16 witness: delete_user removed a user's record and the index still maps
\* a public key to the deleted uuid, beside another user's record.
C16_Witness ==
    /\ last.op = "delete_user" /\ last.ret = TRUE
    /\ UserKey(last.arg.uuid) \notin DOMAIN store
    /\ \E k \in ValidKeyStrings :
         get_user_uuid(store, PublicKeyFromStr(k).val) = Some(last.arg.uuid)
    /\ \E uuid \in Issued : UserKey(uuid) \in DOMAIN store

\* C17: put_user leaves the index as it was, so after it alone the index
\* need not map the new user's public key to the new uuid; once
\* update_keys(u.pub_key, u.uuid) has returned Ok, with no write of the keys
\* document and no delete between its read and its save, get_user_uuid of
\* the key is that uuid, and where the user's record is stored under that
\* uuid with that key, get_user of the uuid returns a User with the key.
C17_RegistrationEstablishesConsistency ==
    [][/\ last'.op = "put_user" =>
            \A k \in ValidKeyStrings :
              get_user_uuid(store', PublicKeyFromStr(k).val)
                = get_user_uuid(store, PublicKeyFromStr(k).val)
       /\ (last'.op = "update_keys" /\ last'.done /\ last'.ret.ok) =>
            LET pk == last'.arg.pub_key
                uuid == last'.arg.user_uuid
                before == get_user(store, uuid)
            IN  /\ get_user_uuid(store', PublicKeyFromStr(pk).val) = Some(uuid)
                /\ (before.some /\ before.val.pub_key = pk) =>
                     /\ get_user(store', uuid).some
                     /\ get_user(store', uuid).val.pub_key = pk]_stepvars

\* C17 witness: a put_user returned a User whose public key the index does
\* not resolve to the User's uuid, while the User's record is stored.
C17_Witness ==
    /\ last.op = "put_user" /\ last.ret.ok
    /\ last.ret.val.pub_key \in ValidKeyStrings
    /\ get_user(store, last.ret.val.uuid) = Some(last.ret.val)
    /\ get_user_uuid(store, PublicKeyFromStr(last.ret.val.pub_key).val)
         # Some(last.ret.val.uuid)

\* Two delete requests that ran together have both been answered; they name
\* the same uuid, each is signed over its own message by the same key, and
\* that key is the one of the user record the requests found: the uuid
\* existed and both requests are correctly signed.
BothDeletesAnswered ==
    /\ \A t \in Joined : task[t].op = "delete_user_handler" /\ task[t].pc = "returned"
    /\ task["j1"].arg.user_uuid = task["j2"].arg.user_uuid
    /\ \E k \in ValidKeyStrings :
         /\ \A t \in Joined :
              task[t].arg.signature = SignatureString(k, Message(task[t].arg))
         /\ \E t \in Joined :
              /\ task[t].loc.ret.kind \in {"success", "server_error"}
              /\ task[t].loc.loc.found_user.pub_key = k

\* C18 as stated: of two correctly signed delete requests for the same
\* existing uuid that ran together at most one is answered success(202),
\* each other one is answered not_found or server_error("Failed to delete
\* user"), and the user record is absent when both are answered.
C18_OneSuccessOthersNotFoundOrFailed ==
    BothDeletesAnswered =>
      /\ \E t \in Joined :
           \A other \in Joined \ {t} :
             task[other].loc.ret \in {NotFound, ServerError("Failed to delete user")}
      /\ \A t \in Joined :
           task[t].loc.ret \in {Success(Accepted), NotFound,
                                ServerError("Failed to delete user")}
      /\ UserKey(task["j1"].arg.user_uuid) \notin DOMAIN store

\* C18 amended: at most one of the requests gets past the record delete and
\* is answered success(202), or server_error("Failed to delete key") when
\* its write of the index fails; each other one is answered not_found or
\* server_error("Failed to delete user"); the record is absent when both
\* are answered.
C18_OneDeletesOthersNotFoundOrFailed ==
    BothDeletesAnswered =>
      /\ \E t \in Joined :
           /\ task[t].loc.ret \in {Success(Accepted), NotFound,
                                   ServerError("Failed to delete user"),
                                   ServerError("Failed to delete key")}
           /\ \A other \in Joined \ {t} :
                task[other].loc.ret \in {NotFound, ServerError("Failed to delete user")}
      /\ UserKey(task["j1"].arg.user_uuid) \notin DOMAIN store

\* C18 witness: both requests passed the verify; one was answered
\* success(202), the other server_error("Failed to delete user").
C18_Witness ==
    /\ BothDeletesAnswered
    /\ \E t \in Joined, other \in Joined :
         /\ task[t].loc.ret = Success(Accepted)
         /\ task[other].loc.ret = ServerError("Failed to delete user")
    /\ UserKey(task["j1"].arg.user_uuid) \notin DOMAIN store

\* C19: the handler deletes the user record first, with the index as it
\* was; it goes on to the index removal only when delete_user returned true,
\* and answers server_error("Failed to delete user") with the storage
\* unchanged when it returned false; an index removal that fails is
\* answered server_error("Failed to delete key") with nothing rolled back:
\* the record stays absent and the index is as it was before the removal.
C19_RecordFirstNoRollback ==
    [][(last'.op = "delete_user_handler" /\ task[last'.task].op = "delete_user_handler") =>
         LET t == last'.task
             key == UserKey(task[t].arg.user_uuid)
         IN  /\ task[t].pc = "delete_user" =>
                  /\ key \notin DOMAIN store'
                  /\ get_keys(store') = get_keys(store)
                  /\ (KEYS_STRING \in DOMAIN store') = (KEYS_STRING \in DOMAIN store)
                  /\ IF key \in DOMAIN store
                     THEN ~last'.done /\ task'[t].pc = "remove_key_get"
                     ELSE /\ last'.done
                          /\ last'.ret = ServerError("Failed to delete user")
                          /\ store' = store
             /\ task[t].pc = "remove_key_get" => store' = store
             /\ task[t].pc = "remove_key_save" =>
                  /\ last'.done
                  /\ last'.ret \in {Success(Accepted), ServerError("Failed to delete key")}
                  /\ key \notin DOMAIN store'
                  /\ last'.ret = ServerError("Failed to delete key") => store' = store]_stepvars

\* C19 witness: server_error("Failed to delete key") was answered; the
\* user's record is gone and the index still maps the user's public key to
\* the deleted uuid.
C19_Witness ==
    /\ last.op = "delete_user_handler" /\ last.done
    /\ last.ret = ServerError("Failed to delete key")
    /\ UserKey(last.arg.user_uuid) \notin DOMAIN store
    /\ get_user_uuid(store, PublicKeyFromStr(last.loc.found_user.pub_key).val)
         = Some(last.arg.user_uuid)

\* C20: get_keys returns Ok for every content of the keys document, and
\* the empty mapping for a document that does not decode; an update_keys
\* whose read found such a document and whose save succeeds leaves a
\* document that decodes to the mapping with the one entry
\* pub_key -> user_uuid.
C20_UndecodableIndexReadsEmpty ==
    [][/\ get_keys(store).ok
       /\ (KEYS_STRING \in DOMAIN store /\ ~PubKeysFromValue(store[KEYS_STRING]).some) =>
            /\ get_keys(store) = Ok(PubKeysDefault)
            /\ (last'.op = "update_keys" /\ ~last'.done) =>
                 task'[last'.task].loc.read = Ok(PubKeysDefault)
            /\ (last'.op = "update_keys" /\ last'.done
                  /\ task[last'.task].loc.read = Ok(PubKeysDefault)
                  /\ last'.ret.ok) =>
                 /\ PubKeysFromValue(store'[KEYS_STRING]).some
                 /\ get_keys(store')
                      = Ok(AddUserUuid(PubKeysDefault, last'.arg.user_uuid,
                                       last'.arg.pub_key))]_stepvars

\* C20 witness: the get_keys of an update_keys has read a stored keys
\* document that does not decode as the empty mapping, and the update_keys
\* is about to save over it.
C20_Witness ==
    /\ last.op = "update_keys" /\ ~last.done
    /\ task[last.task].pc = "save"
    /\ task[last.task].loc.read = Ok(PubKeysDefault)
    /\ KEYS_STRING \in DOMAIN store
    /\ ~PubKeysFromValue(store[KEYS_STRING]).some

====
